---- MODULE Spec2Model ----
(***************************************************************************)
(* Model of the questionnaire application (questionnaire.py) and of its    *)
(* history page (pages/historique.py).                                      *)
(*                                                                          *)
(*   Spec       the application: sessions navigating the pages, validating *)
(*              the questionnaire into the SQLite table and the Google     *)
(*              sheet, and the history page reading the table back.        *)
(*   SpecSheet  sauvegarder_reponses_google_sheets applied once to a sheet *)
(*              and arguments drawn from bounded sets.                     *)
(*   SpecStats  the history page applied to a table drawn from a bounded   *)
(*              set.                                                        *)
(*                                                                          *)
(* Encodings.  A cell of the sheet is a string, "" being the empty cell; a *)
(* row is the sequence of its cells without the trailing empty ones and a  *)
(* sheet is the sequence of its rows without the trailing empty ones (what *)
(* the API returns).  A row of the table is a record; its field notes maps *)
(* each criterion column that holds a number to that number: a column that *)
(* holds "" (the default of transformer_reponses) or any other non-numeric *)
(* value is absent from the domain of notes.                                *)
(***************************************************************************)
EXTENDS Integers, Sequences, FiniteSets, TLC

VARIABLES
    page,        \* st.session_state.page, per session
    reponses,    \* st.session_state.reponses, per session
    fin,         \* st.session_state.fin, per session
    raised,      \* per session: what the session's last callback raised ("" = nothing)
    db,          \* rows of table evaluations of evaluation.db, in rowid order
    sheet,       \* rows of sheet1 of the Google spreadsheet
    conns,       \* the calls of sauvegarder_reponses_sqlite whose connection is open
    clicks,      \* number of clicks on "Valider le questionnaire" so far
    df_final,    \* df_final of the last call of valider_questionnaire
    appel,       \* inputs of the last call of valider_questionnaire
    stats_crit,  \* stats_crit of the last run of the history page
    stats_axes,  \* stats_axes of the last run of the history page
    gs           \* the call of sauvegarder_reponses_google_sheets made under SpecSheet

vars == <<page, reponses, fin, raised, db, sheet, conns, clicks, df_final, appel,
          stats_crit, stats_axes, gs>>

(***************************************************************************)
(* Bounds                                                                   *)
(***************************************************************************)
NumCriteres == 2    \* criteria modelled (the program has 10)
NumAxes == 2        \* axes modelled (the program has 5)
MaxClicks == 2      \* clicks on the validation button, all sessions together
MaxCols == 2        \* columns of a sheet row or of a DataFrame under SpecSheet
MaxSheetRows == 2   \* rows of the sheet before the call under SpecSheet
MaxTableRows == 2   \* rows of the table under SpecStats

(***************************************************************************)
(* Data (questionnaire.py 84-103), names in ASCII                           *)
(***************************************************************************)
TousCriteres ==
    << "Impact energie-climat", "Cout d'investissement (CAPEX)", "Aide-subvention",
       "Retour sur investissement (ROI)", "Temps de retour sur investissement",
       "Facilite de mise en oeuvre", "Effet levier ou structurant",
       "Duree de vie de l'action", "Acceptabilite pour les utilisateurs",
       "Visibilite et exemplarite" >>

TousAxes ==
    << "pertinence strategique", "capacite discriminante", "fiabilite de l'evaluation",
       "Acceptabilite politique et sociale", "temporalite/Durabilite" >>

criteres == SubSeq(TousCriteres, 1, NumCriteres)

axes == SubSeq(TousAxes, 1, NumAxes)

Range(f) == {f[i] : i \in DOMAIN f}

SliderMin == 1

SliderMax == 10

SliderDefault == 5

Min2(a, b) == IF a <= b THEN a ELSE b

Max2(a, b) == IF a >= b THEN a ELSE b

(***************************************************************************)
(* The Google sheet: what the gspread calls of                              *)
(* sauvegarder_reponses_google_sheets do to it                              *)
(***************************************************************************)
RECURSIVE TrimRight(_)
\* a row without its trailing empty cells
TrimRight(row) ==
    IF row = <<>> THEN <<>>
    ELSE IF row[Len(row)] = "" THEN TrimRight(SubSeq(row, 1, Len(row) - 1))
    ELSE row

RECURSIVE TrimRows(_)
\* a sheet without its trailing empty rows
TrimRows(rows) ==
    IF rows = <<>> THEN <<>>
    ELSE IF rows[Len(rows)] = <<>> THEN TrimRows(SubSeq(rows, 1, Len(rows) - 1))
    ELSE rows

\* sheet.row_values(n): the cells of row n up to its last non-empty cell
row_values(sh, n) == IF n <= Len(sh) THEN sh[n] ELSE <<>>

\* sheet.update("A1", [values]) and sheet.update("1:1", [values]): both write
\* Len(values) cells starting at A1; the further cells of row 1 are not cleared
update(sh, range_name, values) ==
    LET old == row_values(sh, 1)
        new == TrimRight([i \in 1..Max2(Len(old), Len(values)) |->
                            IF i <= Len(values) THEN values[i] ELSE old[i]])
    IN  TrimRows(IF sh = <<>> THEN <<new>> ELSE [sh EXCEPT ![1] = new])

\* sheet.insert_row(values, 1): a new row 1, every existing row moves down
insert_row(sh, values, index) ==
    TrimRows(SubSeq(sh, 1, index - 1) \o <<TrimRight(values)>> \o SubSeq(sh, index, Len(sh)))

\* what a cell typed in the sheet's user interface becomes (USER_ENTERED): a
\* number written with a leading zero is stored as the number
UserEntered(cell) == IF cell = "01" THEN "1" ELSE cell

\* sheet.append_rows(rows, value_input_option="USER_ENTERED"): the rows go after
\* the last non-empty row of the sheet
append_rows(sh, rows) ==
    TrimRows(sh \o [r \in 1..Len(rows) |->
                      TrimRight([i \in 1..Len(rows[r]) |-> UserEntered(rows[r][i])])])

\* df.replace([np.nan, np.inf, -np.inf], ""): the tokens stand for the floats
Nettoyer(cell) == IF cell \in {"NaN", "inf", "-inf"} THEN "" ELSE cell

\* the environment: the remote call of one invocation that raises, if any
\*   "open"   _get_gspread_client / open_by_key      (47-48)
\*   "read"   sheet.row_values(1)                     (62)
\*   "header" sheet.update / sheet.insert_row         (66, 70, 72)
\*   "append" sheet.append_rows                       (77)
Faults == {"none", "open", "read", "header", "append"}

HeaderModes == {"insert_if_missing", "overwrite", "keep"}

\* gestion_entetes with the missing header written under insert_if_missing only
gestion_entetes_si_insert(sh, headers, header_mode, fault) ==
    IF header_mode # "keep"
    THEN LET first_row == IF fault = "read" THEN <<>> ELSE row_values(sh, 1)
         IN  IF first_row = <<>>
             THEN IF header_mode = "insert_if_missing"
                  THEN update(sh, "A1", headers) ELSE sh
             ELSE IF first_row # headers
                  THEN IF header_mode = "insert_if_missing"
                       THEN insert_row(sh, headers, 1)
                       ELSE IF header_mode = "overwrite"
                            THEN update(sh, "1:1", headers)
                            ELSE sh
                  ELSE sh
    ELSE sh

\* lines 59-72: the sheet after the header handling
gestion_entetes(sh, headers, header_mode, fault) ==
    IF header_mode # "keep"
    THEN LET first_row == IF fault = "read" THEN <<>> ELSE row_values(sh, 1)
         IN  IF first_row = <<>>
             THEN update(sh, "A1", headers)
             ELSE IF first_row # headers
                  THEN IF header_mode = "insert_if_missing"
                       THEN insert_row(sh, headers, 1)
                       ELSE IF header_mode = "overwrite"
                            THEN update(sh, "1:1", headers)
                            ELSE sh
                  ELSE sh
    ELSE sh

\* lines 59-72: whether the header handling calls sheet.update or sheet.insert_row
entetes_ecrites(sh, headers, header_mode, fault) ==
    /\ header_mode # "keep"
    /\ LET first_row == IF fault = "read" THEN <<>> ELSE row_values(sh, 1)
       IN  \/ first_row = <<>>
           \/ first_row # headers /\ header_mode \in {"insert_if_missing", "overwrite"}

\* sauvegarder_reponses_google_sheets(df, sheet_id, header_mode) on sheet sh, df
\* given by its column labels and its rows; the result is the sheet afterwards
\* and whether the call raised
GsCorps(sh, headers, rows, header_mode, fault) ==
    LET propre == [r \in 1..Len(rows) |-> [i \in 1..Len(rows[r]) |-> Nettoyer(rows[r][i])]]
        ecrit == entetes_ecrites(sh, headers, header_mode, fault)
        sh1 == gestion_entetes(sh, headers, header_mode, fault)
    IN  IF fault = "open" THEN [sheet |-> sh, raised |-> TRUE]
        ELSE IF fault = "header" /\ ecrit THEN [sheet |-> sh, raised |-> TRUE]
        ELSE IF propre = <<>> THEN [sheet |-> sh1, raised |-> FALSE]
        ELSE IF fault = "append" THEN [sheet |-> sh1, raised |-> TRUE]
        ELSE [sheet |-> append_rows(sh1, propre), raised |-> FALSE]

\* the call with its exceptions caught instead of raised to the caller
GsEtouffe(sh, headers, rows, header_mode, fault) ==
    [GsCorps(sh, headers, rows, header_mode, fault) EXCEPT !.raised = FALSE]

sauvegarder_reponses_google_sheets(sh, headers, rows, header_mode, fault) ==
    GsCorps(sh, headers, rows, header_mode, fault)

(***************************************************************************)
(* The questionnaire (questionnaire.py 113-230)                             *)
(***************************************************************************)
\* st.session_state.id_participant of the sessions: str(uuid.uuid4())[:8]
Sessions == {"3f2a9c1e", "b07d44e2"}

\* datetime.now().strftime("%Y-%m-%d %H:%M:%S") at the successive clicks on the
\* validation button: the clock advances between two clicks
Horloge ==
    << "2025-06-01 10:00:00", "2025-06-01 10:00:07", "2025-06-01 10:01:15",
       "2025-06-01 10:02:03", "2025-06-01 10:02:40", "2025-06-01 10:03:11" >>

\* what the two text areas hold when the session validates, (autre_critere,
\* commentaires): one participant fills them, the other leaves them empty
TextInputs(s) ==
    IF s = "3f2a9c1e" THEN { <<"un autre critere", "une remarque">> } ELSE { <<"", "">> }

\* what the sliders of one page may hold when a button is clicked: every slider
\* at its default, or the sliders of the axes at 1, 2, 3, ...
NotesInputs ==
    { [a \in Range(axes) |-> SliderDefault],
      [a \in Range(axes) |->
          Min2(SliderMax, SliderMin - 1 + CHOOSE i \in 1..Len(axes) : axes[i] = a)] }

\* enregistrer_reponse that records nothing
enregistrer_reponse_oubli(rep, notes, critere) == rep

\* enregistrer_reponse(notes, critere) on the session's reponses
enregistrer_reponse(rep, notes, critere) ==
    [c \in DOMAIN rep \cup {critere} |-> IF c = critere THEN notes ELSE rep[c]]

\* the criterion columns of the row of axis axe that hold a number
\* (reponses.get(critere, {}).get(axe, "") is not "")
NotesLigne(rep, axe) ==
    [c \in {k \in Range(criteres) : k \in DOMAIN rep /\ axe \in DOMAIN rep[k]} |-> rep[c][axe]]

\* transformer_reponses without the test i == 0: the texts on every row
transformer_reponses_partout(rep, autres_criteres, commentaires, id_participant, date_validation) ==
    [i \in 1..Len(axes) |->
        [ id_participant |-> id_participant,
          date_validation |-> date_validation,
          critere_evaluation |-> axes[i],
          notes |-> NotesLigne(rep, axes[i]),
          autres |-> autres_criteres,
          commentaires |-> commentaires ] ]

\* transformer_reponses: one row per axis, in the order of axes
transformer_reponses(rep, autres_criteres, commentaires, id_participant, date_validation) ==
    [i \in 1..Len(axes) |->
        [ id_participant |-> id_participant,
          date_validation |-> date_validation,
          critere_evaluation |-> axes[i],
          notes |-> NotesLigne(rep, axes[i]),
          autres |-> IF i = 1 THEN autres_criteres ELSE "",
          commentaires |-> IF i = 1 THEN commentaires ELSE "" ] ]

\* to_sql with if_exists="replace"
to_sql_replace(table, df) == df

\* df.to_sql("evaluations", conn, if_exists="append", index=False)
to_sql(table, df) == table \o df

\* what the environment does to the write: "locked" stands for any error that
\* to_sql raises (sqlite3.OperationalError: database is locked)
SqliteOutcomes == {"ok", "locked"}

\* sauvegarder_reponses_sqlite(df): the table afterwards, whether the call raised
\* and whether its connection is still open when it exits
sauvegarder_reponses_sqlite(table, df, sq) ==
    IF sq = "locked"
    THEN [db |-> table, raised |-> TRUE, conn_open |-> TRUE]
    ELSE [db |-> to_sql(table, df), raised |-> FALSE, conn_open |-> FALSE]

\* [str(c) for c in df.columns.tolist()] of a DataFrame of transformer_reponses
Colonnes ==
    <<"id_participant", "date_validation", "critere_evaluation">> \o criteres
        \o <<"Autres criteres suggeres", "Commentaires / Remarques">>

\* df.astype(object).values.tolist(), each value as the API sends it
Valeurs(df) ==
    [r \in 1..Len(df) |->
        <<df[r].id_participant, df[r].date_validation, df[r].critere_evaluation>>
        \o [k \in 1..Len(criteres) |->
               IF criteres[k] \in DOMAIN df[r].notes
               THEN ToString(df[r].notes[criteres[k]]) ELSE ""]
        \o <<df[r].autres, df[r].commentaires>>]

NoAppel == [id_participant |-> "", autre_critere |-> "", commentaires |-> "",
            date_validation |-> ""]

\* the button "Precedent" (179)
Precedent(s) ==
    /\ ~fin[s]
    /\ page[s] < Len(criteres)
    /\ page[s] > 0
    /\ page' = [page EXCEPT ![s] = page[s] - 1]
    /\ raised' = [raised EXCEPT ![s] = ""]
    /\ UNCHANGED <<reponses, fin, db, sheet, conns, clicks, df_final, appel,
                   stats_crit, stats_axes, gs>>

\* the button "Suivant" (181-185)
Suivant(s) ==
    /\ ~fin[s]
    /\ page[s] < Len(criteres)
    /\ page[s] < Len(criteres) - 1
    /\ \E notes \in NotesInputs :
         reponses' = [reponses EXCEPT
                        ![s] = enregistrer_reponse(reponses[s], notes, criteres[page[s] + 1])]
    /\ page' = [page EXCEPT ![s] = page[s] + 1]
    /\ raised' = [raised EXCEPT ![s] = ""]
    /\ UNCHANGED <<fin, db, sheet, conns, clicks, df_final, appel,
                   stats_crit, stats_axes, gs>>

\* the button "Questions ouvertes" (186-190)
QuestionsOuvertes(s) ==
    /\ ~fin[s]
    /\ page[s] < Len(criteres)
    /\ ~(page[s] < Len(criteres) - 1)
    /\ \E notes \in NotesInputs :
         reponses' = [reponses EXCEPT
                        ![s] = enregistrer_reponse(reponses[s], notes, criteres[page[s] + 1])]
    /\ page' = [page EXCEPT ![s] = page[s] + 1]
    /\ raised' = [raised EXCEPT ![s] = ""]
    /\ UNCHANGED <<fin, db, sheet, conns, clicks, df_final, appel,
                   stats_crit, stats_axes, gs>>

\* the button "Valider le questionnaire" (211-230): valider_questionnaire
valider_questionnaire(s) ==
    /\ ~fin[s]
    /\ ~(page[s] < Len(criteres))
    /\ clicks < MaxClicks
    /\ \E txt \in TextInputs(s), sq \in SqliteOutcomes, fault \in Faults :
         LET date == Horloge[clicks + 1]
             df == transformer_reponses(reponses[s], txt[1], txt[2], s, date)
             w == sauvegarder_reponses_sqlite(db, df, sq)
             g == sauvegarder_reponses_google_sheets(sheet, Colonnes, Valeurs(df),
                                                     "insert_if_missing", fault)
         IN  /\ df_final' = df
             /\ appel' = [id_participant |-> s, autre_critere |-> txt[1],
                          commentaires |-> txt[2], date_validation |-> date]
             /\ db' = w.db
             /\ conns' = IF w.conn_open
                         THEN conns \cup {"sauvegarder_reponses_sqlite"} ELSE conns
             /\ IF w.raised
                THEN /\ sheet' = sheet
                     /\ raised' = [raised EXCEPT ![s] = "sqlite"]
                     /\ fin' = fin
                ELSE /\ sheet' = g.sheet
                     /\ raised' = [raised EXCEPT ![s] = IF g.raised THEN "remote" ELSE ""]
                     /\ fin' = [fin EXCEPT ![s] = ~g.raised]
    /\ clicks' = clicks + 1
    /\ UNCHANGED <<page, reponses, stats_crit, stats_axes, gs>>

\* the interpreter frees the connections nothing refers to any more
Collect ==
    /\ conns # {}
    /\ conns' = {}
    /\ UNCHANGED <<page, reponses, fin, raised, db, sheet, clicks, df_final, appel,
                   stats_crit, stats_axes, gs>>

(***************************************************************************)
(* The history page (pages/historique.py)                                   *)
(***************************************************************************)
\* the group keys in the order groupby puts them (Python's order of strings)
OrdreCles ==
    << "Acceptabilite politique et sociale", "Acceptabilite pour les utilisateurs",
       "Aide-subvention", "Cout d'investissement (CAPEX)", "Duree de vie de l'action",
       "Effet levier ou structurant", "Facilite de mise en oeuvre",
       "Impact energie-climat", "Retour sur investissement (ROI)",
       "Temps de retour sur investissement", "Visibilite et exemplarite",
       "capacite discriminante", "fiabilite de l'evaluation", "pertinence strategique",
       "temporalite/Durabilite" >>

RECURSIVE Concat(_)
Concat(ss) == IF ss = <<>> THEN <<>> ELSE Head(ss) \o Concat(Tail(ss))

\* long (45-54): the numeric notes, each with the axis and the criterion it
\* belongs to; non-numeric notes are dropped
long(table) ==
    Concat([r \in 1..Len(table) |->
        Concat([k \in 1..Len(OrdreCles) |->
            IF OrdreCles[k] \in DOMAIN table[r].notes
            THEN << [Axe |-> table[r].critere_evaluation, Critere |-> OrdreCles[k],
                     Note |-> table[r].notes[OrdreCles[k]]] >>
            ELSE <<>>])])

RECURSIVE Inserer(_, _)
Inserer(x, s) ==
    IF s = <<>> THEN <<x>>
    ELSE IF x <= Head(s) THEN <<x>> \o s ELSE <<Head(s)>> \o Inserer(x, Tail(s))

RECURSIVE Trier(_)
\* the notes in increasing order
Trier(s) == IF s = <<>> THEN <<>> ELSE Inserer(Head(s), Trier(Tail(s)))

RECURSIVE Somme(_)
Somme(s) == IF s = <<>> THEN 0 ELSE Head(s) + Somme(Tail(s))

\* a median that takes the lower middle note of an even number of notes
median_basse(tri) == [num |-> 2 * tri[(Len(tri) + 1) \div 2], den |-> 2]

\* "median" of pandas, as a fraction: the middle note of an odd number of notes,
\* the mean of the two middle notes of an even number
median(tri) ==
    LET n == Len(tri)
    IN  IF n % 2 = 1
        THEN [num |-> 2 * tri[(n + 1) \div 2], den |-> 2]
        ELSE [num |-> tri[n \div 2] + tri[n \div 2 + 1], den |-> 2]

\* .agg(N="count", Moyenne="mean", Mediane="median", Min="min", Max="max") of one
\* group (the standard deviation is not modelled); means are fractions num/den
agg(cle, notes) ==
    LET tri == Trier(notes)
    IN  [ Cle |-> cle,
          N |-> Len(notes),
          Moyenne |-> [num |-> Somme(notes), den |-> Len(notes)],
          Mediane |-> median(tri),
          Min |-> tri[1],
          Max |-> tri[Len(tri)] ]

\* a / b > c / d
Plus(x, y) == x.num * y.den > y.num * x.den

RECURSIVE InsererStat(_, _)
InsererStat(g, s) ==
    IF s = <<>> THEN <<g>>
    ELSE IF Plus(g.Moyenne, Head(s).Moyenne) THEN <<g>> \o s
    ELSE <<Head(s)>> \o InsererStat(g, Tail(s))

RECURSIVE sort_values(_)
\* .sort_values("Moyenne", ascending=False); equal means keep the order of the keys
sort_values(groups) ==
    IF groups = <<>> THEN <<>>
    ELSE InsererStat(groups[Len(groups)], sort_values(SubSeq(groups, 1, Len(groups) - 1)))

NotesDe(obs, champ, cle) ==
    LET sel == SelectSeq(obs, LAMBDA o : o[champ] = cle)
    IN  [i \in 1..Len(sel) |-> sel[i].Note]

\* long.groupby(champ)["Note"].agg(...).sort_values(...) (59-69)
groupby(obs, champ) ==
    sort_values(Concat([k \in 1..Len(OrdreCles) |->
        IF \E i \in 1..Len(obs) : obs[i][champ] = OrdreCles[k]
        THEN << agg(OrdreCles[k], NotesDe(obs, champ, OrdreCles[k])) >>
        ELSE <<>>]))

\* Path(DB_PATH).exists(): the file is there once a connection was made to it
fichier_existe == clicks > 0 \/ db # <<>>

\* one run of the page: it stops before the statistics when the file is missing
\* (14-16) and when the table is missing or empty (18-24); it only reads the table
historique ==
    /\ IF ~fichier_existe \/ db = <<>>
       THEN /\ stats_crit' = <<>>
            /\ stats_axes' = <<>>
       ELSE /\ stats_crit' = groupby(long(db), "Critere")
            /\ stats_axes' = groupby(long(db), "Axe")
    /\ UNCHANGED <<page, reponses, fin, raised, db, sheet, conns, clicks, df_final,
                   appel, gs>>

(***************************************************************************)
(* Spec: the application                                                    *)
(***************************************************************************)
NoGs == [before |-> <<>>, headers |-> <<>>, rows |-> <<>>, header_mode |-> "",
         fault |-> "", raised |-> FALSE]

\* lines 113-121, and nothing stored yet
InitApp ==
    /\ page = [s \in Sessions |-> 0]
    /\ reponses = [s \in Sessions |-> <<>>]
    /\ fin = [s \in Sessions |-> FALSE]
    /\ raised = [s \in Sessions |-> ""]
    /\ conns = {}
    /\ clicks = 0
    /\ df_final = <<>>
    /\ appel = NoAppel
    /\ stats_crit = <<>>
    /\ stats_axes = <<>>

Init ==
    /\ InitApp
    /\ db = <<>>
    /\ sheet = <<>>
    /\ gs = NoGs

Next ==
    \/ \E s \in Sessions : Precedent(s)
    \/ \E s \in Sessions : Suivant(s)
    \/ \E s \in Sessions : QuestionsOuvertes(s)
    \/ \E s \in Sessions : valider_questionnaire(s)
    \/ historique
    \/ Collect

Spec == Init /\ [][Next]_vars

(***************************************************************************)
(* SpecSheet: one call on a sheet and arguments drawn from bounded sets     *)
(***************************************************************************)
SeqsUpTo(S, n) == UNION {[1..k -> S] : k \in 0..n}

\* column labels and the cells of existing rows
Labels == {"id", "note"}

\* the column lists a DataFrame may have
HeaderInputs == SeqsUpTo(Labels, MaxCols) \ {<<>>}

\* the sheets the call may find: rows of non-empty cells, or empty rows
SheetInputs ==
    {sh \in SeqsUpTo(SeqsUpTo(Labels, MaxCols), MaxSheetRows) : TrimRows(sh) = sh}

\* the DataFrames with column list headers: none, one or two rows
DfInputs(headers) ==
    LET n == Len(headers)
    IN  { <<>>,
          << [i \in 1..n |-> "x"] >>,
          << [i \in 1..n |-> "x"], [i \in 1..n |-> IF i = 1 THEN "01" ELSE "NaN"] >> }

InitSheet ==
    /\ InitApp
    /\ db = <<>>
    /\ sheet \in SheetInputs
    /\ gs = NoGs

GsCall ==
    /\ gs = NoGs
    /\ \E headers \in HeaderInputs, header_mode \in HeaderModes, fault \in Faults :
         \E rows \in DfInputs(headers) :
           LET r == sauvegarder_reponses_google_sheets(sheet, headers, rows, header_mode, fault)
           IN  /\ sheet' = r.sheet
               /\ gs' = [before |-> sheet, headers |-> headers, rows |-> rows,
                         header_mode |-> header_mode, fault |-> fault, raised |-> r.raised]
    /\ UNCHANGED <<page, reponses, fin, raised, db, conns, clicks, df_final, appel,
                   stats_crit, stats_axes>>

NextSheet == GsCall

SpecSheet == InitSheet /\ [][NextSheet]_vars

(***************************************************************************)
(* SpecStats: the history page on a table drawn from a bounded set          *)
(***************************************************************************)
\* the notes a stored column may hold (besides a non-numeric value)
StatNotes == {2, 4, 10}

StatAxes == {TousAxes[1], TousAxes[2]}

StatCols == {TousCriteres[1], TousCriteres[2]}

StatRows ==
    { [ id_participant |-> "3f2a9c1e", date_validation |-> "2025-06-01 10:00:00",
        critere_evaluation |-> a, notes |-> n, autres |-> "", commentaires |-> "" ] :
      a \in StatAxes, n \in UNION {[D -> StatNotes] : D \in SUBSET StatCols} }

InitStats ==
    /\ InitApp
    /\ db \in SeqsUpTo(StatRows, MaxTableRows)
    /\ sheet = <<>>
    /\ gs = NoGs

NextStats == historique

SpecStats == InitStats /\ [][NextStats]_vars

(***************************************************************************)
(* Claims on sauvegarder_reponses_google_sheets (SpecSheet)                 *)
(***************************************************************************)
\* the data rows of the call as they land in the sheet
DonneesGs ==
    [r \in 1..Len(gs.rows) |->
        TrimRight([i \in 1..Len(gs.rows[r]) |-> UserEntered(Nettoyer(gs.rows[r][i]))])]

\* the call was made and returned without raising
GsRetourne == gs.header_mode \in HeaderModes /\ ~gs.raised

\* row 1 of the sheet before the call is non-empty and differs from the columns
EnteteDifferente ==
    row_values(gs.before, 1) # <<>> /\ row_values(gs.before, 1) # gs.headers

PremiereLigneVide == row_values(gs.before, 1) = <<>>

\* the rows of the sheet before the call, below row 1
SousEntete == IF gs.before = <<>> THEN <<>> ELSE Tail(gs.before)

\* C1: under insert_if_missing, with a non-empty row 1 that differs from the column
\* list, the sheet after the call is the column list as the new row 1, then every
\* row it had before, unchanged and one row lower, then the data rows.
C1_HeaderInsertedAbove ==
    (GsRetourne /\ gs.header_mode = "insert_if_missing" /\ EnteteDifferente)
        => sheet = <<gs.headers>> \o gs.before \o DonneesGs

\* C2 as stated: with an empty first row, under every header policy, the sheet
\* after the call has the column list as row 1, its other rows as before, then the
\* data rows.
C2_HeaderWrittenUnderEveryPolicy ==
    (GsRetourne /\ PremiereLigneVide)
        => sheet = <<gs.headers>> \o SousEntete \o DonneesGs

\* C2 amended: with an empty first row, under insert_if_missing and overwrite the
\* sheet after the call has the column list as row 1, its other rows as before,
\* then the data rows; under keep no header is written and the sheet is its rows
\* as before, then the data rows.
C2_HeaderWrittenUnlessKeep ==
    (GsRetourne /\ PremiereLigneVide)
        => /\ gs.header_mode \in {"insert_if_missing", "overwrite"}
                => sheet = <<gs.headers>> \o SousEntete \o DonneesGs
           /\ gs.header_mode = "keep" => sheet = gs.before \o DonneesGs

C2_Witness ==
    /\ GsRetourne
    /\ gs.header_mode = "overwrite"
    /\ Len(gs.before) = 2
    /\ PremiereLigneVide
    /\ Len(gs.rows) = 2
    /\ Len(sheet) = 4

\* C3: with a non-empty row 1 that differs from the column list, under overwrite
\* the sheet after the call is the column list as row 1, the other rows as before,
\* then the data rows; under keep it is the rows as before, then the data rows.
C3_OverwriteInPlaceKeepUntouched ==
    (GsRetourne /\ EnteteDifferente)
        => /\ gs.header_mode = "overwrite"
                => sheet = <<gs.headers>> \o SousEntete \o DonneesGs
           /\ gs.header_mode = "keep" => sheet = gs.before \o DonneesGs

(***************************************************************************)
(* Claims on the application (Spec)                                         *)
(***************************************************************************)
DerniersN(s, n) == IF Len(s) <= n THEN s ELSE SubSeq(s, Len(s) - n + 1, Len(s))

\* the rows of df_final as they land in the sheet
DonneesFinal ==
    LET v == Valeurs(df_final)
    IN  [r \in 1..Len(v) |-> TrimRight(v[r])]

\* valider_questionnaire was called, and its write to the table did not raise
AppelEcrit == appel # NoAppel /\ raised[appel.id_participant] # "sqlite"

\* the sheet does not end with the rows of the last validation
FeuilleSansDonnees == DerniersN(sheet, Len(df_final)) # DonneesFinal

\* C4: when the write to the sheet of a validation fails, the rows the validation
\* appended to the table are still its last rows, the failure is raised to the
\* caller and the questionnaire is not marked finished; a validation whose rows did
\* not reach the sheet never ends as a success.
C4_RemoteFailureKeepsRowsAndPropagates ==
    AppelEcrit =>
        /\ raised[appel.id_participant] = "remote"
              => /\ DerniersN(db, Len(axes)) = df_final
                 /\ ~fin[appel.id_participant]
        /\ FeuilleSansDonnees
              => /\ raised[appel.id_participant] = "remote"
                 /\ ~fin[appel.id_participant]
                 /\ DerniersN(db, Len(axes)) = df_final

C4_Witness ==
    /\ AppelEcrit
    /\ raised[appel.id_participant] = "remote"
    /\ FeuilleSansDonnees
    /\ Len(db) = 2 * Len(axes)

\* C5: no connection opened by sauvegarder_reponses_sqlite is open once the call
\* has returned or raised.
C5_ConnectionClosedOnEveryPath == conns = {}

IsPrefix(s, t) == Len(s) <= Len(t) /\ SubSeq(t, 1, Len(s)) = s

\* C6: every step leaves the rows of the table in place and unchanged: the rows
\* before the step are a prefix of the rows after it.
C6_AppendOnly == [][IsPrefix(db, db')]_vars

C6_Witness ==
    /\ Len(db) = Len(axes)
    /\ stats_crit # <<>>
    /\ \E s \in Sessions : fin[s]
    /\ \E s \in Sessions : raised[s] = "sqlite"

\* C7: the rows built by a validation are one per axis in the order of axes, all
\* with the session's id_participant and the date of the validation, the two texts
\* on the first row and "" on the others; once written they are the last rows of
\* the table, of which all but the first have both texts empty.
C7_OneRowPerAxis ==
    appel # NoAppel =>
        /\ Len(df_final) = Len(axes)
        /\ \A i \in 1..Len(df_final) :
              /\ df_final[i].critere_evaluation = axes[i]
              /\ df_final[i].id_participant = appel.id_participant
              /\ df_final[i].date_validation = appel.date_validation
              /\ df_final[i].autres = IF i = 1 THEN appel.autre_critere ELSE ""
              /\ df_final[i].commentaires = IF i = 1 THEN appel.commentaires ELSE ""
        /\ AppelEcrit =>
              /\ Len(db) >= Len(axes)
              /\ \A i \in 1..Len(axes) : db[Len(db) - Len(axes) + i] = df_final[i]
              /\ (appel.autre_critere # "" /\ appel.commentaires # "") =>
                    Cardinality({i \in 1..Len(axes) :
                                   /\ db[Len(db) - Len(axes) + i].autres = ""
                                   /\ db[Len(db) - Len(axes) + i].commentaires = ""})
                        = Len(axes) - 1

C7_Witness ==
    /\ AppelEcrit
    /\ appel.autre_critere # ""
    /\ appel.commentaires # ""
    /\ Len(db) = 2 * Len(axes)
    /\ db[1].id_participant # appel.id_participant

\* C8: a session on the validation page has a recorded note, an integer from 1 to
\* 10, for every criterion and every axis, and every criterion field of every row
\* built by a validation is an integer from 1 to 10.
C8_NotesComplete ==
    /\ \A s \in Sessions :
          ~(page[s] < Len(criteres)) =>
              \A c \in Range(criteres) :
                  /\ c \in DOMAIN reponses[s]
                  /\ \A a \in Range(axes) :
                        /\ a \in DOMAIN reponses[s][c]
                        /\ reponses[s][c][a] \in 1..10
    /\ \A i \in 1..Len(df_final) :
          \A c \in Range(criteres) :
              /\ c \in DOMAIN df_final[i].notes
              /\ df_final[i].notes[c] \in 1..10

C8_Witness ==
    /\ appel # NoAppel
    /\ \E i \in 1..Len(df_final) : \E c, d \in Range(criteres) :
          df_final[i].notes[c] # df_final[i].notes[d]
    /\ \A s \in Sessions : page[s] = Len(criteres)

\* C10: a session whose fin flag is true has exactly |axes| rows with its
\* id_participant in the table and exactly |axes| data rows with it in the sheet.
C10_ExactlyOneBatchWhenFinished ==
    \A s \in Sessions :
        fin[s] =>
            /\ Cardinality({r \in 1..Len(db) : db[r].id_participant = s}) = Len(axes)
            /\ Cardinality({r \in 1..Len(sheet) : sheet[r] # <<>> /\ sheet[r][1] = s})
                  = Len(axes)

(***************************************************************************)
(* Claim on the history page (SpecStats)                                    *)
(***************************************************************************)
\* the numeric notes of the table: (row, column) pairs
Observations ==
    {o \in (1..Len(db)) \X Range(OrdreCles) : o[2] \in DOMAIN db[o[1]].notes}

NoteObs(o) == db[o[1]].notes[o[2]]

ObsCritere(c) == {o \in Observations : o[2] = c}

ObsAxe(a) == {o \in Observations : db[o[1]].critere_evaluation = a}

RECURSIVE SommeObs(_)
SommeObs(O) ==
    IF O = {} THEN 0
    ELSE LET o == CHOOSE x \in O : TRUE IN NoteObs(o) + SommeObs(O \ {o})

\* the k-th smallest note of the observations O
Kieme(O, k) ==
    CHOOSE v \in {NoteObs(o) : o \in O} :
        /\ Cardinality({o \in O : NoteObs(o) < v}) < k
        /\ k <= Cardinality({o \in O : NoteObs(o) <= v})

\* N, Min, Max and Moyenne of group g are those of the observations O
BaseJuste(g, O) ==
    /\ g.N = Cardinality(O)
    /\ \E o \in O : g.Min = NoteObs(o)
    /\ \A o \in O : g.Min <= NoteObs(o)
    /\ \E o \in O : g.Max = NoteObs(o)
    /\ \A o \in O : g.Max >= NoteObs(o)
    /\ g.Moyenne.num * g.N = SommeObs(O) * g.Moyenne.den
    /\ g.Moyenne.den # 0

\* Mediane of group g is a middle note of the sorted notes
MedianeMilieu(g, O) ==
    LET n == Cardinality(O)
    IN  \/ g.Mediane.num = g.Mediane.den * Kieme(O, (n + 1) \div 2)
        \/ g.Mediane.num = g.Mediane.den * Kieme(O, n \div 2 + 1)

\* Mediane of group g is the middle note of an odd number of notes, the mean of
\* the two middle notes of an even number
MedianePandas(g, O) ==
    LET n == Cardinality(O)
    IN  IF n % 2 = 1
        THEN g.Mediane.num = g.Mediane.den * Kieme(O, (n + 1) \div 2)
        ELSE 2 * g.Mediane.num = g.Mediane.den * (Kieme(O, n \div 2) + Kieme(O, n \div 2 + 1))

\* the groups of a statistics table are the keys with a numeric note, once each
GroupesJustes(stats, Obs(_)) ==
    /\ {stats[k].Cle : k \in 1..Len(stats)} = {c \in Range(OrdreCles) : Obs(c) # {}}
    /\ \A j, k \in 1..Len(stats) : stats[j].Cle = stats[k].Cle => j = k

StatsCalculees == stats_crit # <<>> \/ stats_axes # <<>>

\* C9 as stated: per criterion and per axis, over exactly the numeric notes of the
\* group, N is their number, Min and Max the smallest and the largest, Moyenne
\* their sum divided by N, and Mediane the middle value of the sorted notes.
C9_MedianIsMiddleValue ==
    StatsCalculees =>
        /\ GroupesJustes(stats_crit, ObsCritere)
        /\ GroupesJustes(stats_axes, ObsAxe)
        /\ \A k \in 1..Len(stats_crit) :
              /\ BaseJuste(stats_crit[k], ObsCritere(stats_crit[k].Cle))
              /\ MedianeMilieu(stats_crit[k], ObsCritere(stats_crit[k].Cle))
        /\ \A k \in 1..Len(stats_axes) :
              /\ BaseJuste(stats_axes[k], ObsAxe(stats_axes[k].Cle))
              /\ MedianeMilieu(stats_axes[k], ObsAxe(stats_axes[k].Cle))

\* the example of the specification: notes [2,4,4,8,10]
ExempleNotes ==
    LET g == agg("x", <<2, 4, 4, 8, 10>>)
    IN  /\ g.N = 5
        /\ g.Moyenne.num * 5 = 28 * g.Moyenne.den
        /\ g.Mediane.num = 4 * g.Mediane.den
        /\ g.Min = 2
        /\ g.Max = 10

\* C9 amended: as stated, but Mediane is the middle value of the sorted notes when
\* N is odd and the mean of the two middle values when N is even; notes
\* [2,4,4,8,10] give N 5, mean 28/5, median 4, min 2, max 10.
C9_MedianOfPandas ==
    /\ ExempleNotes
    /\ StatsCalculees =>
        /\ GroupesJustes(stats_crit, ObsCritere)
        /\ GroupesJustes(stats_axes, ObsAxe)
        /\ \A k \in 1..Len(stats_crit) :
              /\ BaseJuste(stats_crit[k], ObsCritere(stats_crit[k].Cle))
              /\ MedianePandas(stats_crit[k], ObsCritere(stats_crit[k].Cle))
        /\ \A k \in 1..Len(stats_axes) :
              /\ BaseJuste(stats_axes[k], ObsAxe(stats_axes[k].Cle))
              /\ MedianePandas(stats_axes[k], ObsAxe(stats_axes[k].Cle))

C9_Witness ==
    /\ Len(stats_crit) = 2
    /\ Len(stats_axes) = 2
    /\ \E r \in 1..Len(db) : DOMAIN db[r].notes # StatCols
    /\ \E k \in 1..Len(stats_crit) :
          stats_crit[k].N = 2 /\ stats_crit[k].Mediane.num = 12
    /\ \E k \in 1..Len(stats_axes) : stats_axes[k].N = 1

====
